---- MODULE Spec2Model ----
(***************************************************************************)
(* Shelfly bookstore: the pricing and order settlement engine.             *)
(*                                                                         *)
(* The database rows are the state.  No view opens a transaction, so each  *)
(* save(), create() and delete() commits on its own (Django autocommit);   *)
(* a request handler is therefore a sequence of committed steps.  Each     *)
(* step is an operator from the database and the request's objects to the  *)
(* outcomes it can have.  Under Spec requests are served one at a time:    *)
(* an action is a whole handler, its steps run to the response.  Under     *)
(* SpecOffice the back office and the clock act between the requests.      *)
(* Under SpecConc two requests interleave, one step per action.            *)
(*                                                                         *)
(* Money is an integer count of 1/10000 rupee, so that a two-digit decimal *)
(* times Decimal('0.15') is exact.                                         *)
(***************************************************************************)
EXTENDS Integers, FiniteSets, Sequences, Bags, TLC

\* ------------------------------------------------------------- bounds
MaxOrders == 2        \* orders placed under Spec and SpecConc
MaxOfficeOrders == 1  \* orders placed under SpecOffice
MaxTime == 1          \* the clock's last tick
InitStock == 1        \* each book's stock when the shop opens
MaxUsage == 2         \* largest max_usage and current_usage of a priced coupon
MaxItems == 8         \* largest item count of a priced cart
MaxCartStock == 3
MaxStock == InitStock \* a cancellation is followed only while stock stays within it

\* ------------------------------------------------------------- data
Books == {"b1", "b2"}
Customers == {"c1", "c2"}
Coupons == {"k1", "k2"}
Procs == {1, 2}
NoCoupon == "none"
None == "None"
NoObject == [id |-> 0]       \* a request's object not fetched yet

E4(rupees) == rupees * 10000

\* Book rows as the catalogue holds them when the shop opens.
BookRow ==
  [b \in Books |->
     IF b = "b1" THEN [price |-> E4(600), stock |-> InitStock]
                 ELSE [price |-> E4(400), stock |-> InitStock]]

\* Coupon rows as they are when the shop opens; a view writes current_usage
\* only, the back office is_active.  K1 is in use, OLD was switched off.
CouponRow ==
  [k \in Coupons |->
     IF k = "k1"
     THEN [code |-> "K1", discount_type |-> "fixed",
           discount_value |-> E4(100), max_usage |-> 1,
           min_purchase |-> E4(500), expiry_date |-> 0, is_active |-> TRUE]
     ELSE [code |-> "OLD", discount_type |-> "percentage",
           discount_value |-> E4(10), max_usage |-> 1,
           min_purchase |-> 0, expiry_date |-> 0, is_active |-> FALSE]]

STATUS_CHOICES == {"Pending", "Confirmed", "Shipped", "Delivered", "Cancelled"}
PAYMENT_STATUS == {"Unpaid", "Paid", "Failed", "Refunded"}
cancellable_statuses == {"Pending", "Confirmed"}

VARIABLES
  stock,                \* Book.stock
  price,                \* Book.price
  current_usage,        \* Coupon.current_usage
  is_active,            \* Coupon.is_active
  is_first_time_buyer,  \* Customer.is_first_time_buyer
  cart_items,           \* CartItem rows: customer -> book -> quantity (0: no row)
  cart_coupon,          \* Cart.applied_coupon
  orders,               \* Order rows, by id 1..Len(orders)
  order_items,          \* OrderItem rows
  payments,             \* Payment rows
  coupon_usages,        \* CouponUsage rows, a bag: a row has no field but its key
  now,                  \* the clock datetime.now() reads
  req,                  \* each request in progress: its position and objects
  resp                  \* the latest response sent

vars == <<stock, price, current_usage, is_active, is_first_time_buyer,
          cart_items, cart_coupon, orders, order_items, payments,
          coupon_usages, now, req, resp>>

\* The database as one value: what a step reads and what it returns.
DB ==
  [stock |-> stock, price |-> price, current_usage |-> current_usage,
   is_active |-> is_active,
   is_first_time_buyer |-> is_first_time_buyer, cart_items |-> cart_items,
   cart_coupon |-> cart_coupon, orders |-> orders,
   order_items |-> order_items, payments |-> payments,
   coupon_usages |-> coupon_usages]

Commit(d) ==
  /\ stock' = d.stock
  /\ price' = d.price
  /\ current_usage' = d.current_usage
  /\ is_active' = d.is_active
  /\ is_first_time_buyer' = d.is_first_time_buyer
  /\ cart_items' = d.cart_items
  /\ cart_coupon' = d.cart_coupon
  /\ orders' = d.orders
  /\ order_items' = d.order_items
  /\ payments' = d.payments
  /\ coupon_usages' = d.coupon_usages

\* ------------------------------------------------------------- helpers
RECURSIVE SumOver(_, _)
SumOver(S, f) ==
  IF S = {} THEN 0
  ELSE LET x == CHOOSE y \in S : TRUE
       IN f[x] + SumOver(S \ {x}, f)

Min(a, b) == IF a <= b THEN a ELSE b

\* A DecimalField(decimal_places=2) column: the value is rounded half-even
\* to two fraction digits when the row is written.
Quantize(x) ==
  LET q == x \div 100
      r == x % 100
  IN IF r < 50 THEN q * 100
     ELSE IF r > 50 THEN (q + 1) * 100
     ELSE IF q % 2 = 0 THEN q * 100 ELSE (q + 1) * 100

\* The number of CouponUsage rows of coupon k and order id, and of coupon k.
UsagesOfOrder(rows, k, id) ==
  LET hit == {u \in BagToSet(rows) : u.coupon = k /\ u.order = id}
  IN SumOver(hit, [u \in hit |-> CopiesIn(u, rows)])

UsagesOf(rows, k) ==
  LET hit == {u \in BagToSet(rows) : u.coupon = k}
  IN SumOver(hit, [u \in hit |-> CopiesIn(u, rows)])

\* CouponUsage.objects.filter(order=id).delete()
WithoutOrder(rows, id) ==
  LET kept == {u \in BagToSet(rows) : u.order # id}
  IN [u \in kept |-> CopiesIn(u, rows)]

\* ------------------------------------------------------------- Coupon
\* A variant of Coupon.is_valid that looks at the expiry date before the
\* usage limit.
Coupon_is_valid_expiry_first(coupon, t) ==
  IF ~coupon.is_active THEN "This coupon is inactive"
  ELSE IF t > coupon.expiry_date THEN "This coupon has expired"
  ELSE IF coupon.current_usage >= coupon.max_usage
  THEN "Coupon usage limit reached"
  ELSE "Valid"

\* Coupon.is_valid on a coupon row, with the clock reading t; the message
\* stands for the (bool, message) pair, "Valid" for (True, "Valid").
Coupon_is_valid(coupon, t) ==
  IF ~coupon.is_active THEN "This coupon is inactive"
  ELSE IF coupon.current_usage >= coupon.max_usage
  THEN "Coupon usage limit reached"
  ELSE IF t > coupon.expiry_date THEN "This coupon has expired"
  ELSE "Valid"

\* The Coupon object of coupon k, whose is_active and current_usage were
\* read as `active` and `usage`.
CouponObject(k, active, usage) ==
  [is_active |-> active, current_usage |-> usage,
   max_usage |-> CouponRow[k].max_usage,
   expiry_date |-> CouponRow[k].expiry_date,
   discount_type |-> CouponRow[k].discount_type,
   discount_value |-> CouponRow[k].discount_value,
   min_purchase |-> CouponRow[k].min_purchase]

\* Coupon.is_valid on coupon k.
is_valid(k, active, usage, t) ==
  Coupon_is_valid(CouponObject(k, active, usage), t)

\* A variant of Coupon.calculate_discount that grants a fixed coupon's whole
\* value.
Coupon_calculate_discount_uncapped(coupon, amount) ==
  IF coupon.discount_type = "fixed"
  THEN coupon.discount_value
  ELSE ((amount \div 100) * (coupon.discount_value \div 100)) \div 100

\* Coupon.calculate_discount on a coupon row.  amount and discount_value have
\* two fraction digits, so both are whole multiples of 100 units and
\* (amount * discount_value) / 100 is their product in hundredths, over 100.
Coupon_calculate_discount(coupon, amount) ==
  IF coupon.discount_type = "fixed"
  THEN Min(coupon.discount_value, amount)
  ELSE ((amount \div 100) * (coupon.discount_value \div 100)) \div 100

calculate_discount(k, amount) == Coupon_calculate_discount(CouponRow[k], amount)

\* ------------------------------------------------------------- Cart
\* The books of customer c's CartItem rows.
CartBooks(items, c) == {b \in Books : items[c][b] > 0}

\* Cart.subtotal: CartItem.subtotal = book.price * quantity, read live.
subtotal(items, prices, c) ==
  SumOver(CartBooks(items, c), [b \in Books |-> prices[b] * items[c][b]])

total_items(items, c) ==
  SumOver(CartBooks(items, c), [b \in Books |-> items[c][b]])

\* A variant of calculate_shipping that charges the extra fee from the
\* fifth book on.
calculate_shipping_from_five(sub, count) ==
  IF sub >= E4(5000) THEN 0
  ELSE IF count >= 5 THEN E4(50) + (count - 4) * E4(10)
  ELSE E4(50)

calculate_shipping(sub, count) ==
  IF sub >= E4(5000) THEN 0
  ELSE IF count > 5 THEN E4(50) + (count - 5) * E4(10)
  ELSE E4(50)

\* A variant of order_value_discount that adds up the tiers reached.
order_value_discount_cumulative(sub) ==
  (IF sub >= E4(5000) THEN (sub * 15) \div 100 ELSE 0)
  + (IF sub >= E4(2000) THEN (sub * 10) \div 100 ELSE 0)
  + (IF sub >= E4(1000) THEN (sub * 5) \div 100 ELSE 0)

order_value_discount(sub) ==
  IF sub >= E4(5000) THEN (sub * 15) \div 100
  ELSE IF sub >= E4(2000) THEN (sub * 10) \div 100
  ELSE IF sub >= E4(1000) THEN (sub * 5) \div 100
  ELSE 0

first_time_discount(sub, first) ==
  IF first THEN (sub * 15) \div 100 ELSE 0

\* Cart.coupon_discount on a cart whose applied_coupon, if `applied`, is the
\* coupon row `coupon`.
Cart_coupon_discount(applied, coupon, sub, t) ==
  IF applied /\ Coupon_is_valid(coupon, t) = "Valid"
     /\ sub >= coupon.min_purchase
  THEN Coupon_calculate_discount(coupon, sub)
  ELSE 0

\* Cart.coupon_discount for applied coupon k (or NoCoupon), whose row was
\* read with `active` and `usage`.
coupon_discount(k, active, usage, sub, t) ==
  IF k = NoCoupon THEN 0
  ELSE Cart_coupon_discount(TRUE, CouponObject(k, active, usage), sub, t)

\* A variant of Cart.total_discount that grants the best discount only.  A
\* cart is given as its pricing reads it: subtotal, total_items, the
\* customer's is_first_time_buyer, and the applied coupon's row if any.
Cart_total_discount_best(cart, t) ==
  LET coupon == Cart_coupon_discount(cart.applied, cart.coupon, cart.sub, t)
      value == order_value_discount(cart.sub)
      first == first_time_discount(cart.sub, cart.first)
  IN IF coupon >= value /\ coupon >= first THEN coupon
     ELSE IF value >= first THEN value ELSE first

\* Cart.total_discount
Cart_total_discount(cart, t) ==
  Cart_coupon_discount(cart.applied, cart.coupon, cart.sub, t)
  + order_value_discount(cart.sub)
  + first_time_discount(cart.sub, cart.first)

\* Cart.total_amount
Cart_total_amount(cart, t) ==
  cart.sub - Cart_total_discount(cart, t)
  + calculate_shipping(cart.sub, cart.count)

\* ------------------------------------------------------------- cart views
add_to_cart(d, c, b) ==
  IF d.cart_items[c][b] = 0
  THEN [d EXCEPT !.cart_items[c][b] = 1]
  ELSE IF d.cart_items[c][b] < d.stock[b]
  THEN [d EXCEPT !.cart_items[c][b] = @ + 1]
  ELSE d

\* A variant of update_cart_item whose decrease has no minimum.
update_cart_item_no_minimum(d, c, b, action) ==
  IF d.cart_items[c][b] = 0 THEN d
  ELSE IF action = "increase"
  THEN IF d.cart_items[c][b] < d.stock[b]
       THEN [d EXCEPT !.cart_items[c][b] = @ + 1] ELSE d
  ELSE IF action = "decrease"
  THEN [d EXCEPT !.cart_items[c][b] = @ - 1]
  ELSE d

\* update_cart_item on the CartItem of (c, b); no such row is a 404.
update_cart_item(d, c, b, action) ==
  IF d.cart_items[c][b] = 0 THEN d
  ELSE IF action = "increase"
  THEN IF d.cart_items[c][b] < d.stock[b]
       THEN [d EXCEPT !.cart_items[c][b] = @ + 1] ELSE d
  ELSE IF action = "decrease"
  THEN IF d.cart_items[c][b] > 1
       THEN [d EXCEPT !.cart_items[c][b] = @ - 1] ELSE d
  ELSE d

remove_from_cart(d, c, b) == [d EXCEPT !.cart_items[c][b] = 0]

\* The coupon a code names, or NoCoupon (Coupon.DoesNotExist).
CouponByCode(code) ==
  IF \E k \in Coupons : CouponRow[k].code = code
  THEN CHOOSE k \in Coupons : CouponRow[k].code = code
  ELSE NoCoupon

\* request.POST.get('coupon_code', '').strip().upper(), on the texts posted.
coupon_code(posted) ==
  CASE posted = " k1 " -> "K1"
    [] posted = "  " -> ""
    [] OTHER -> posted

\* A variant of apply_coupon without the minimum purchase check.
apply_coupon_any_subtotal(d, c, posted, t) ==
  LET code == coupon_code(posted)
      k == CouponByCode(code)
  IN
  IF code = "" \/ k = NoCoupon THEN d
  ELSE IF is_valid(k, d.is_active[k], d.current_usage[k], t) # "Valid" THEN d
  ELSE [d EXCEPT !.cart_coupon[c] = k]

apply_coupon(d, c, posted, t) ==
  LET code == coupon_code(posted)
      k == CouponByCode(code)
  IN
  IF code = "" \/ k = NoCoupon THEN d
  ELSE IF is_valid(k, d.is_active[k], d.current_usage[k], t) # "Valid" THEN d
  ELSE IF subtotal(d.cart_items, d.price, c) < CouponRow[k].min_purchase THEN d
  ELSE [d EXCEPT !.cart_coupon[c] = k]

remove_coupon(d, c) == [d EXCEPT !.cart_coupon[c] = NoCoupon]

\* ------------------------------------------------------------- settlement
\* A request that ended before it held any object.
Reply(op, c, id, result) ==
  [pc |-> "done", op |-> op, customer |-> c, order |-> id, result |-> result,
   method |-> None]

\* The objects both settlement views hold once the cart was found non-empty:
\* the Cart row (its applied_coupon), the Customer object, and the evaluated
\* cart_items queryset (an unordered list of rows).
SettleReq(d, c, method) ==
  [pc |-> "create_order", op |-> "settle", customer |-> c, method |-> method,
   cart_coupon |-> d.cart_coupon[c], first |-> d.is_first_time_buyer[c],
   todo |-> d.cart_items[c], order |-> 0, usage |-> 0, active |-> FALSE,
   book |-> None,
   book_stock |-> 0, book_price |-> 0, held |-> NoObject, result |-> None,
   pre |-> [stock |-> d.stock, current_usage |-> d.current_usage,
            coupon_usages |-> d.coupon_usages]]

\* A variant of checkout without the test of the cart's rows.
checkout_any_cart(d, c, payment_method, delivery_ok) ==
  IF ~delivery_ok THEN Reply("settle", c, 0, "ValidationError")
  ELSE IF payment_method = "Cash" THEN SettleReq(d, c, "Cash")
  ELSE IF payment_method = "Card" THEN Reply("settle", c, 0, "CardForm")
  ELSE Reply("settle", c, 0, "InvalidMethod")

\* checkout, POST: payment_method Cash places the order; Card only renders
\* the card form.
checkout(d, c, payment_method, delivery_ok) ==
  IF CartBooks(d.cart_items, c) = {} THEN Reply("settle", c, 0, "EmptyCart")
  ELSE IF ~delivery_ok THEN Reply("settle", c, 0, "ValidationError")
  ELSE IF payment_method = "Cash" THEN SettleReq(d, c, "Cash")
  ELSE IF payment_method = "Card" THEN Reply("settle", c, 0, "CardForm")
  ELSE Reply("settle", c, 0, "InvalidMethod")

\* The checks process_card_payment makes on the posted form, and a form as
\* the verdict each check gives on it: all fields present, validate_card_number,
\* validate_expiry_date, validate_cvv, len(card_holder) >= 3.
Checks == {"required", "card_number", "expiry_date", "cvv", "card_holder"}
CardForms ==
  {f \in [Checks -> BOOLEAN] : Cardinality({x \in Checks : ~f[x]}) <= 1}

\* A variant of process_card_payment that does not look at the form.
process_card_payment_unvalidated(d, c, form) ==
  IF CartBooks(d.cart_items, c) = {} THEN Reply("settle", c, 0, "EmptyCart")
  ELSE SettleReq(d, c, "Card")

\* process_card_payment up to its last validation.
process_card_payment(d, c, form) ==
  IF CartBooks(d.cart_items, c) = {} THEN Reply("settle", c, 0, "EmptyCart")
  ELSE IF ~form["required"] THEN Reply("settle", c, 0, "CardValidationFailed")
  ELSE IF ~form["card_number"]
  THEN Reply("settle", c, 0, "CardValidationFailed")
  ELSE IF ~form["expiry_date"]
  THEN Reply("settle", c, 0, "CardValidationFailed")
  ELSE IF ~form["cvv"] THEN Reply("settle", c, 0, "CardValidationFailed")
  ELSE IF ~form["card_holder"]
  THEN Reply("settle", c, 0, "CardValidationFailed")
  ELSE SettleReq(d, c, "Card")

\* A variant of the order's pricing that leaves out the books sold out.
NewOrderInStock(d, c, k, usage, t) ==
  LET left == [x \in Customers |->
                 [b \in Books |->
                    IF d.stock[b] > 0 THEN d.cart_items[x][b] ELSE 0]]
      sub == subtotal(left, d.price, c)
  IN
  [customer |-> c, status |-> "Pending", applied_coupon |-> k,
   shipping_fee |-> calculate_shipping(sub, total_items(left, c)),
   coupon_discount |->
     coupon_discount(k, k # NoCoupon /\ d.is_active[k], usage, sub, t),
   order_value_discount |-> order_value_discount(sub),
   first_time_discount |-> first_time_discount(sub, d.is_first_time_buyer[c]),
   cancellation_reason |-> None, cancelled_at |-> <<>>]

\* Order.objects.create(...): its arguments read the cart live (a fresh
\* cartitem_set query, the Coupon row behind cart.applied_coupon, the Customer
\* row behind cart.customer).  This is the Order object the view holds.
NewOrder(d, c, k, usage, t) ==
  LET sub == subtotal(d.cart_items, d.price, c) IN
  [customer |-> c, status |-> "Pending", applied_coupon |-> k,
   shipping_fee |-> calculate_shipping(sub, total_items(d.cart_items, c)),
   coupon_discount |->
     coupon_discount(k, k # NoCoupon /\ d.is_active[k], usage, sub, t),
   order_value_discount |-> order_value_discount(sub),
   first_time_discount |-> first_time_discount(sub, d.is_first_time_buyer[c]),
   cancellation_reason |-> None, cancelled_at |-> <<>>]

\* The row order.save() writes: the decimal columns rounded to two digits.
StoredOrder(o) ==
  [o EXCEPT !.shipping_fee = Quantize(@), !.coupon_discount = Quantize(@),
            !.order_value_discount = Quantize(@),
            !.first_time_discount = Quantize(@)]

\* A variant of the settlement that updates the first-time buyer status as
\* the order is created, before the items are reserved.
CreateOrderFlippingFirstTime(d, r, t) ==
  LET k == r.cart_coupon
      usage == IF k = NoCoupon THEN 0 ELSE d.current_usage[k]
      o == NewOrder(d, r.customer, k, usage, t)
  IN {<<[d EXCEPT !.orders = Append(@, StoredOrder(o)),
                  !.is_first_time_buyer[r.customer] = FALSE],
        [r EXCEPT !.pc = "items", !.order = Len(d.orders) + 1,
                  !.usage = usage, !.active = k # NoCoupon /\ d.is_active[k],
                  !.held = o]>>}

CreateOrder(d, r, t) ==
  LET k == r.cart_coupon
      usage == IF k = NoCoupon THEN 0 ELSE d.current_usage[k]
      o == NewOrder(d, r.customer, k, usage, t)
  IN {<<[d EXCEPT !.orders = Append(@, StoredOrder(o))],
        [r EXCEPT !.pc = "items", !.order = Len(d.orders) + 1,
                  !.usage = usage, !.active = k # NoCoupon /\ d.is_active[k],
                  !.held = o]>>}

\* The loop over cart_items: cart_item.book fetches the Book row.
ReadBook(d, r) ==
  IF \A b \in Books : r.todo[b] = 0
  THEN {<<d, [r EXCEPT !.pc = "redeem"]>>}
  ELSE {<<d, [r EXCEPT !.pc = "save_item", !.book = b,
                       !.book_stock = d.stock[b], !.book_price = d.price[b]]>> :
        b \in {x \in Books : r.todo[x] > 0}}

\* A variant of OrderItem.save without the stock check: the row is inserted
\* and the stock written whatever the Book object holds.
OrderItemSaveUnchecked(d, r) ==
  LET b == r.book
      q == r.todo[b]
  IN {<<[d EXCEPT !.stock[b] = r.book_stock - q,
                  !.price[b] = r.book_price,
                  !.order_items = @ \cup
                     {[order |-> r.order, book |-> b, quantity |-> q,
                       unit_price |-> r.book_price,
                       subtotal |-> Quantize(r.book_price * q)]}],
        [r EXCEPT !.pc = "items", !.todo[b] = 0]>>}

\* OrderItem.save for a new row: the stock check on the Book object read
\* above, book.save(), then the insert.  The ValidationError it raises
\* is caught by the view's except, which answers and ends.
OrderItemSave(d, r) ==
  LET b == r.book
      q == r.todo[b]
  IN
  IF r.book_stock >= q
  THEN {<<[d EXCEPT !.stock[b] = r.book_stock - q,
                    !.price[b] = r.book_price,
                    !.order_items = @ \cup
                       {[order |-> r.order, book |-> b, quantity |-> q,
                         unit_price |-> r.book_price,
                         subtotal |-> Quantize(r.book_price * q)]}],
          [r EXCEPT !.pc = "items", !.todo[b] = 0]>>}
  ELSE {<<d, [r EXCEPT !.pc = "done", !.result = "InsufficientStock"]>>}

\* A variant of the redemption that inserts the CouponUsage row twice into a
\* table without the unique_together constraint.
RedeemCouponTwice(d, r) ==
  LET k == r.cart_coupon
      row == [coupon |-> k, customer |-> r.customer, order |-> r.order]
  IN
  IF k # NoCoupon
  THEN {<<[d EXCEPT !.current_usage[k] = r.usage + 1,
                    !.is_active[k] = r.active,
                    !.coupon_usages = @ (+) SetToBag({row}) (+) SetToBag({row})],
          [r EXCEPT !.pc = "first_time"]>>}
  ELSE {<<d, [r EXCEPT !.pc = "first_time"]>>}

\* "Update Coupon Usage": the Coupon object is the one Order.objects.create
\* fetched; coupon.save() writes its current_usage + 1 and its other
\* fields.  Then CouponUsage.objects.create: unique_together (coupon, order) makes the
\* database refuse a second row of the pair, and the view's except answers.
RedeemCoupon(d, r) ==
  LET k == r.cart_coupon
      row == [coupon |-> k, customer |-> r.customer, order |-> r.order]
  IN
  IF k = NoCoupon
  THEN {<<d, [r EXCEPT !.pc = "first_time"]>>}
  ELSE IF UsagesOfOrder(d.coupon_usages, k, r.order) > 0
  THEN {<<[d EXCEPT !.current_usage[k] = r.usage + 1,
                    !.is_active[k] = r.active],
          [r EXCEPT !.pc = "done", !.result = "IntegrityError"]>>}
  ELSE {<<[d EXCEPT !.current_usage[k] = r.usage + 1,
                    !.is_active[k] = r.active,
                    !.coupon_usages = @ (+) SetToBag({row})],
          [r EXCEPT !.pc = "first_time"]>>}

\* A variant of the settlement that leaves the customer's flag.
KeepFirstTime(d, r) == {<<d, [r EXCEPT !.pc = "payment"]>>}

\* "Update First-Time Buyer Status", on the Customer object of the request.
FlipFirstTime(d, r) ==
  IF r.first
  THEN {<<[d EXCEPT !.is_first_time_buyer[r.customer] = FALSE],
          [r EXCEPT !.pc = "payment"]>>}
  ELSE {<<d, [r EXCEPT !.pc = "payment"]>>}

\* Order.subtotal / total_discount / total_amount.
OrderItemsOf(items, id) == {i \in items : i.order = id}

OrderSubtotal(items, id) ==
  SumOver(OrderItemsOf(items, id), [i \in OrderItemsOf(items, id) |-> i.subtotal])

OrderTotalDiscount(o) ==
  o.coupon_discount + o.order_value_discount + o.first_time_discount

OrderTotalAmount(o, items, id) ==
  OrderSubtotal(items, id) - OrderTotalDiscount(o) + o.shipping_fee

\* A variant of the receiver without the test of the order's status.
update_order_status_any(rows, id, held, status) ==
  IF status = "Paid"
  THEN [rows EXCEPT ![id] = [held EXCEPT !.status = "Confirmed"]]
  ELSE rows

\* post_save of Payment: update_order_status, on the Order object the
\* payment holds (`held`), written back whole by order.save().
update_order_status(rows, id, held, status) ==
  IF status = "Paid" /\ held.status = "Pending"
  THEN [rows EXCEPT ![id] = StoredOrder([held EXCEPT !.status = "Confirmed"])]
  ELSE rows

\* A variant in which every new Payment is Paid.
NewPaymentStatusPaid(method) == IF method = "Card" THEN "Paid" ELSE "Paid"

\* The Payment status each view creates: Paid for Card, Unpaid for Cash.
NewPaymentStatus(method) == IF method = "Card" THEN "Paid" ELSE "Unpaid"

\* Payment.objects.create, on the Order object this request created and holds.
CreatePayment(d, r) ==
  LET status == NewPaymentStatus(r.method) IN
  {<<[d EXCEPT !.payments = @ \cup
                 {[order |-> r.order, method |-> r.method, status |-> status,
                   amount |-> Quantize(OrderTotalAmount(r.held, d.order_items,
                                                         r.order))]},
               !.orders = update_order_status(@, r.order, r.held, status)],
     [r EXCEPT !.pc = "clear_cart"]>>}

\* A variant of "Clear Cart" without cart.save(): the coupon stays applied.
ClearCartKeepingCoupon(d, r) ==
  {<<[d EXCEPT !.cart_items[r.customer] = [b \in Books |-> 0]],
     [r EXCEPT !.pc = "done", !.result = "ok"]>>}

\* A variant of "Clear Cart" that leaves the CartItem rows.
ClearCartKeepingItems(d, r) ==
  {<<[d EXCEPT !.cart_coupon[r.customer] = NoCoupon],
     [r EXCEPT !.pc = "done", !.result = "ok"]>>}

\* "Clear Cart": cart_items.delete() deletes the cart's rows as they are now;
\* cart.save() writes applied_coupon = None.
ClearCart(d, r) ==
  {<<[d EXCEPT !.cart_items[r.customer] = [b \in Books |-> 0],
               !.cart_coupon[r.customer] = NoCoupon],
     [r EXCEPT !.pc = "done", !.result = "ok"]>>}

\* ------------------------------------------------------------- cancellation
\* A variant of cancel_order that looks the order up by its id alone.
cancel_order_any_customer(d, c, id, reason) ==
  IF id \notin DOMAIN d.orders
  THEN Reply("cancel", c, id, "NotFound")
  ELSE IF d.orders[id].status \notin cancellable_statuses
  THEN Reply("cancel", c, id, "NotCancellable")
  ELSE [pc |-> "restore", op |-> "cancel", customer |-> c, order |-> id,
        held |-> d.orders[id], todo |-> OrderItemsOf(d.order_items, id),
        item |-> NoObject, book_stock |-> 0, book_price |-> 0,
        reason |-> reason, result |-> None, method |-> None]

\* A variant of cancel_order without the status check.
cancel_order_any_status(d, c, id, reason) ==
  IF id \notin DOMAIN d.orders \/ d.orders[id].customer # c
  THEN Reply("cancel", c, id, "NotFound")
  ELSE [pc |-> "restore", op |-> "cancel", customer |-> c, order |-> id,
        held |-> d.orders[id],
        todo |-> {i \in d.order_items : i.order = id},
        item |-> NoObject, book_stock |-> 0, book_price |-> 0,
        reason |-> reason, result |-> None, method |-> None]

\* cancel_order, POST: get_object_or_404 on (id, customer), the status check
\* on the Order object fetched, then the evaluated orderitem_set.
cancel_order(d, c, id, reason) ==
  IF id \notin DOMAIN d.orders \/ d.orders[id].customer # c
  THEN Reply("cancel", c, id, "NotFound")
  ELSE IF d.orders[id].status \notin cancellable_statuses
  THEN Reply("cancel", c, id, "NotCancellable")
  ELSE [pc |-> "restore", op |-> "cancel", customer |-> c, order |-> id,
        held |-> d.orders[id], todo |-> OrderItemsOf(d.order_items, id),
        item |-> NoObject, book_stock |-> 0, book_price |-> 0,
        reason |-> reason, result |-> None, method |-> None]

\* "Restore stock": order_item.book fetches the Book row.
ReadOrderItemBook(d, r) ==
  IF r.todo = {}
  THEN {<<d, [r EXCEPT !.pc = "reverse"]>>}
  ELSE {<<d, [r EXCEPT !.pc = "restore_save", !.item = i,
                       !.book_stock = d.stock[i.book],
                       !.book_price = d.price[i.book]]>> : i \in r.todo}

\* order_item.book.stock += order_item.quantity; order_item.book.save()
RestoreStock(d, r) ==
  LET i == r.item IN
  {<<[d EXCEPT !.stock[i.book] = r.book_stock + i.quantity,
               !.price[i.book] = r.book_price],
     [r EXCEPT !.pc = "restore", !.todo = @ \ {i}]>>}

\* A variant of the coupon reversal that leaves the CouponUsage rows.
ReverseCouponKeepingUsage(d, r) ==
  LET k == r.held.applied_coupon IN
  IF k = NoCoupon
  THEN {<<d, [r EXCEPT !.pc = "mark"]>>}
  ELSE IF d.current_usage[k] - 1 < 0
  THEN {<<d, [r EXCEPT !.pc = "done", !.result = "ServerError"]>>}
  ELSE {<<[d EXCEPT !.current_usage[k] = @ - 1],
          [r EXCEPT !.pc = "mark"]>>}

\* "Revert coupon usage": order.applied_coupon fetches the Coupon row, the
\* view writes current_usage - 1 and deletes the order's CouponUsage rows.
\* current_usage is a PositiveIntegerField: the database refuses a negative
\* value, the save raises and the view, which catches nothing, ends there.
ReverseCoupon(d, r) ==
  LET k == r.held.applied_coupon IN
  IF k = NoCoupon
  THEN {<<d, [r EXCEPT !.pc = "mark"]>>}
  ELSE IF d.current_usage[k] - 1 < 0
  THEN {<<d, [r EXCEPT !.pc = "done", !.result = "ServerError"]>>}
  ELSE {<<[d EXCEPT !.current_usage[k] = @ - 1,
                    !.coupon_usages = WithoutOrder(@, r.order)],
          [r EXCEPT !.pc = "mark"]>>}

\* A variant of the cancellation's save that prices the first-time discount
\* again, with the customer's flag as it is now.
MarkCancelledRepricing(d, r, t) ==
  {<<[d EXCEPT !.orders[r.order] =
        [r.held EXCEPT !.status = "Cancelled",
                       !.cancellation_reason =
                          IF r.reason = "" THEN None ELSE r.reason,
                       !.cancelled_at = <<t>>,
                       !.first_time_discount =
                          Quantize(first_time_discount(
                             SumOver(OrderItemsOf(d.order_items, r.order),
                                     [i \in d.order_items |-> i.subtotal]),
                             d.is_first_time_buyer[r.customer]))]],
     [r EXCEPT !.pc = "done", !.result = "ok"]>>}

\* A variant of the cancellation that also marks the order's Payment Refunded.
MarkCancelledRefunding(d, r, t) ==
  {<<[d EXCEPT !.orders[r.order] =
        [r.held EXCEPT !.status = "Cancelled",
                       !.cancellation_reason =
                          IF r.reason = "" THEN None ELSE r.reason,
                       !.cancelled_at = <<t>>],
               !.payments = {IF pm.order = r.order
                             THEN [pm EXCEPT !.status = "Refunded"]
                             ELSE pm : pm \in @}],
     [r EXCEPT !.pc = "done", !.result = "ok"]>>}

\* order.status = 'Cancelled' ...; order.save() writes the Order object back.
MarkCancelled(d, r, t) ==
  {<<[d EXCEPT !.orders[r.order] =
        [r.held EXCEPT !.status = "Cancelled",
                       !.cancellation_reason =
                          IF r.reason = "" THEN None ELSE r.reason,
                       !.cancelled_at = <<t>>]],
     [r EXCEPT !.pc = "done", !.result = "ok"]>>}

\* ------------------------------------------------------------- back office
\* The admin saves a Payment with a status of PAYMENT_STATUS; the post_save
\* receiver reads the payment's Order row.
AdminSavePayment(d, id, status) ==
  [d EXCEPT !.payments = {IF pm.order = id THEN [pm EXCEPT !.status = status]
                          ELSE pm : pm \in @},
            !.orders = update_order_status(@, id, d.orders[id], status)]

\* The admin moves an order forward: Confirmed to Shipped, Shipped to Delivered.
AdminAdvanceOrder(d, id) ==
  [d EXCEPT !.orders[id].status =
     IF @ = "Confirmed" THEN "Shipped" ELSE "Delivered"]

\* BookAdmin: price and stock are editable in the list of books.
AdminSaveBook(d, b, p, n) == [d EXCEPT !.price[b] = p, !.stock[b] = n]

\* CouponAdmin: is_active is editable in the list of coupons.
AdminSaveCoupon(d, k, active) == [d EXCEPT !.is_active[k] = active]

\* OrderItemAdmin, Save on the row's form as it is: OrderItem.save on a row
\* that has a pk sets unit_price and subtotal from the book as it is now,
\* leaves the stock, and updates the row.
AdminSaveOrderItem(d, i) ==
  [d EXCEPT !.order_items =
     (@ \ {i}) \cup
       {[i EXCEPT !.unit_price = d.price[i.book],
                  !.subtotal = Quantize(d.price[i.book] * i.quantity)]}]

\* ------------------------------------------------------------- handlers
\* The outcomes of the next step of request r.
StepOf(d, r, t) ==
  CASE r.pc = "create_order" -> CreateOrder(d, r, t)
    [] r.pc = "items" -> ReadBook(d, r)
    [] r.pc = "save_item" -> OrderItemSave(d, r)
    [] r.pc = "redeem" -> RedeemCoupon(d, r)
    [] r.pc = "first_time" -> FlipFirstTime(d, r)
    [] r.pc = "payment" -> CreatePayment(d, r)
    [] r.pc = "clear_cart" -> ClearCart(d, r)
    [] r.pc = "restore" -> ReadOrderItemBook(d, r)
    [] r.pc = "restore_save" -> RestoreStock(d, r)
    [] r.pc = "reverse" -> ReverseCoupon(d, r)
    [] r.pc = "mark" -> MarkCancelled(d, r, t)

\* The handler run from r to its response with no other request in between.
RECURSIVE Run(_, _, _)
Run(d, r, t) ==
  IF r.pc = "done" THEN {<<d, r>>}
  ELSE UNION {Run(x[1], x[2], t) : x \in StepOf(d, r, t)}

\* What the client is told.  The response of a placed order carries what the
\* settlement found before it began, and so does the response of the
\* cancellation that is the very next request and names that order (`was`
\* is the response before).  The response of a settlement that is the very
\* next request of the customer who placed an order names that order in
\* `placed`, and carries what the first settlement found unless it places an
\* order itself.
Response(r, was) ==
  LET again == r.op = "settle" /\ was.op = "placed"
               /\ was.customer = r.customer
  IN
  [op |-> r.op, order |-> r.order, result |-> r.result, method |-> r.method,
   placed |-> IF again THEN was.order ELSE 0,
   pre |-> IF r.op = "settle" /\ r.result = "ok" THEN r.pre
           ELSE IF again THEN was.pre
           ELSE IF r.op = "cancel" /\ was.op = "placed" /\ was.order = r.order
           THEN was.pre
           ELSE NoObject]

\* A request is followed only within the model's bounds: a settlement while
\* an order id is left, a cancellation while the stock stays within MaxStock.
Within(d, r) ==
  IF r.pc = "done" THEN TRUE
  ELSE IF r.op = "settle" THEN Len(d.orders) < MaxOrders
  ELSE \A i \in r.todo : d.stock[i.book] + i.quantity <= MaxStock

IdleReq == [pc |-> "idle"]
NoResp == [op |-> "none"]
Free == \A p \in Procs : req[p].pc = "idle"

\* No response is on its way: the next request can be taken.
Ready == Free /\ resp.op \in {"none", "placed"}

Init ==
  /\ stock = [b \in Books |-> BookRow[b].stock]
  /\ price = [b \in Books |-> BookRow[b].price]
  /\ current_usage = [k \in Coupons |-> 0]
  /\ is_active = [k \in Coupons |-> CouponRow[k].is_active]
  /\ is_first_time_buyer = [c \in Customers |-> TRUE]
  /\ cart_items = [c \in Customers |-> [b \in Books |-> 0]]
  /\ cart_coupon = [c \in Customers |-> NoCoupon]
  /\ orders = <<>>
  /\ order_items = {}
  /\ payments = {}
  /\ coupon_usages = EmptyBag
  /\ now = 0
  /\ req = [p \in Procs |-> IdleReq]
  /\ resp = NoResp

\* A view that is one read and one write; its answer is not followed.
Do(d) ==
  /\ Ready
  /\ Commit(d)
  /\ resp' = NoResp
  /\ UNCHANGED <<now, req>>

\* A handler served alone, from the request to the response.
Serve(r) ==
  /\ Ready
  /\ Within(DB, r)
  /\ \E out \in Run(DB, r, now) :
       /\ Commit(out[1])
       /\ resp' = Response(out[2], resp)
  /\ UNCHANGED <<now, req>>

\* The response reaches the client.  After an order was placed, what the
\* settlement had found stays known until the next request is answered.
Deliver ==
  /\ resp.op \notin {"none", "placed"}
  /\ resp' = IF resp.op = "settle" /\ resp.result = "ok"
             THEN [op |-> "placed", order |-> resp.order,
                   customer |-> orders[resp.order].customer, pre |-> resp.pre]
             ELSE NoResp
  /\ UNCHANGED <<stock, price, current_usage, is_active, is_first_time_buyer,
                 cart_items, cart_coupon, orders, order_items, payments, coupon_usages,
                 now, req>>

Tick ==
  /\ Ready
  /\ now < MaxTime
  /\ now' = now + 1
  /\ resp' = NoResp
  /\ UNCHANGED <<stock, price, current_usage, is_active, is_first_time_buyer,
                 cart_items, cart_coupon, orders, order_items, payments, coupon_usages, req>>

Codes == {"K1", " k1 ", "OLD", "BAD", "  "}
Reasons == {"", "changed my mind"}
Methods == {"Cash", "Card"}

\* The requests of the customers in `who`.
ShopOf(who) ==
  \/ \E c \in who, b \in Books : Do(add_to_cart(DB, c, b))
  \/ \E c \in who, b \in Books, a \in {"increase", "decrease"} :
       Do(update_cart_item(DB, c, b, a))
  \/ \E c \in who, b \in Books :
       Do(remove_from_cart(DB, c, b))
  \/ \E c \in who, code \in Codes :
       Do(apply_coupon(DB, c, code, now))
  \/ \E c \in who : Do(remove_coupon(DB, c))

SettleOf(who) ==
  \/ \E c \in who, m \in Methods, ok \in BOOLEAN :
       Serve(checkout(DB, c, m, ok))
  \/ \E c \in who, form \in CardForms :
       Serve(process_card_payment(DB, c, form))

CancelOf(who, reasons) ==
  \E c \in who, id \in 1..MaxOrders, reason \in reasons :
    Serve(cancel_order(DB, c, id, reason))

Shop == ShopOf(Customers)

Settle == SettleOf(Customers)

Cancel(reasons) == CancelOf(Customers, reasons)

BackOffice ==
  \/ \E id \in DOMAIN orders, s \in PAYMENT_STATUS :
       /\ \E pm \in payments : pm.order = id
       /\ Do(AdminSavePayment(DB, id, s))
  \/ \E id \in DOMAIN orders :
       /\ orders[id].status \in {"Confirmed", "Shipped"}
       /\ Do(AdminAdvanceOrder(DB, id))

\* Customers only; requests are served one at a time.
Next ==
  \/ Shop
  \/ Settle
  \/ Cancel({"changed my mind"})
  \/ Deliver

Spec == Init /\ [][Next]_vars

\* Customers, the back office and the clock; requests are served one at a time.
OfficeNext ==
  \/ Shop
  \/ Len(orders) < MaxOfficeOrders /\ Settle
  \/ Cancel(Reasons)
  \/ BackOffice
  \/ Tick
  \/ Deliver

SpecOffice == Init /\ [][OfficeNext]_vars

\* The prices the back office gives a book.
Prices ==
  [b \in Books |-> IF b = "b1" THEN {E4(600), 50000300} ELSE {E4(400)}]

\* The back office keeps the catalogue: books and the rows of placed orders.
Catalogue ==
  \/ \E b \in Books, n \in 0..MaxStock :
       \E p \in Prices[b] : Do(AdminSaveBook(DB, b, p, n))
  \/ \E i \in order_items : Do(AdminSaveOrderItem(DB, i))

\* The back office switches coupons on and off.
Campaigns ==
  \E k \in Coupons, active \in BOOLEAN : Do(AdminSaveCoupon(DB, k, active))

\* One customer and the catalogue; requests are served one at a time.
\* The admin sets a book's stock, the price left as it is.
Restock ==
  \E b \in Books, n \in 0..MaxCartStock :
    Do(AdminSaveBook(DB, b, DB.price[b], n))

\* The cart views, with the stock moving under them.
CartNext == Shop \/ Restock

SpecCart == Init /\ [][CartNext]_vars

CatalogNext ==
  \/ ShopOf({"c1"})
  \/ SettleOf({"c1"})
  \/ CancelOf({"c1"}, {"changed my mind"})
  \/ Catalogue
  \/ Deliver

SpecCatalog == Init /\ [][CatalogNext]_vars

\* One customer, the whole back office and the clock; requests are served
\* one at a time.
BackOfficeNext ==
  \/ ShopOf({"c1"})
  \/ Len(orders) < MaxOfficeOrders /\ SettleOf({"c1"})
  \/ CancelOf({"c1"}, {"changed my mind"})
  \/ BackOffice
  \/ Catalogue
  \/ Campaigns
  \/ Tick
  \/ Deliver

SpecBackOffice == Init /\ [][BackOfficeNext]_vars

\* ------------------------------------------------------------- interleaving
\* A request is taken; one that is answered at its first check has no step
\* to interleave and is left out.  The second slot is used only while the
\* first is busy.
Begin(p, r) ==
  /\ req[p].pc = "idle"
  /\ p = 1 \/ req[1].pc # "idle"
  /\ r.pc # "done"
  /\ Within(DB, r)
  /\ req' = [req EXCEPT ![p] = r]
  /\ UNCHANGED <<stock, price, current_usage, is_active, is_first_time_buyer,
                 cart_items, cart_coupon, orders, order_items, payments, coupon_usages,
                 now, resp>>

\* One committed step of request p.
StepAction(p) ==
  /\ req[p].pc \notin {"idle", "done"}
  /\ \E out \in StepOf(DB, req[p], now) :
       /\ Commit(out[1])
       /\ req' = [req EXCEPT ![p] = out[2]]
  /\ UNCHANGED <<now, resp>>

Finish(p) ==
  /\ req[p].pc = "done"
  /\ req' = [req EXCEPT ![p] = IdleReq]
  /\ resp' = NoResp
  /\ UNCHANGED <<stock, price, current_usage, is_active, is_first_time_buyer,
                 cart_items, cart_coupon, orders, order_items, payments, coupon_usages, now>>

\* The carts are filled before the first order; then cash checkouts and
\* cancellations of placed orders interleave.
ConcNext ==
  \/ /\ orders = <<>>
     /\ \/ \E c \in Customers, b \in Books : Do(add_to_cart(DB, c, b))
        \/ \E c \in Customers, code \in Codes :
             Do(apply_coupon(DB, c, code, now))
  \/ \E p \in Procs, c \in Customers : Begin(p, checkout(DB, c, "Cash", TRUE))
  \/ \E p \in Procs, c \in Customers, id \in 1..MaxOrders :
       /\ \E pm \in payments : pm.order = id
       /\ Begin(p, cancel_order(DB, c, id, ""))
  \/ \E p \in Procs : StepAction(p)
  \/ \E p \in Procs : Finish(p)

SpecConc == Init /\ [][ConcNext]_vars

\* ------------------------------------------------------------- pricing
\* The pricing methods of Coupon and Cart, each called once on a coupon row
\* or a cart drawn when the behaviour starts.

\* Coupon rows as far as is_valid reads them.
CouponStates ==
  [is_active : BOOLEAN, current_usage : 0..MaxUsage,
   max_usage : 0..MaxUsage, expiry_date : 0..MaxTime]

\* Cart subtotals around the thresholds of the pricing rules.
Subtotals ==
  {0, E4(400), E4(600), E4(999), E4(1000), E4(1999), E4(2000), E4(4999),
   49999900, E4(5000), E4(6000)}

\* discount_type and discount_value of a coupon: an amount in rupees for a
\* fixed coupon, a percentage for the other.
Discounts ==
  {[discount_type |-> "fixed", discount_value |-> E4(100)],
   [discount_type |-> "fixed", discount_value |-> E4(1000)],
   [discount_type |-> "percentage", discount_value |-> E4(10)],
   [discount_type |-> "percentage", discount_value |-> E4(25)]}

MinPurchases == {0, E4(500)}

\* Coupon rows as far as the pricing of a cart reads them.
CouponObjects ==
  {[is_active |-> s.is_active, current_usage |-> s.current_usage,
    max_usage |-> s.max_usage, expiry_date |-> s.expiry_date,
    discount_type |-> ty.discount_type, discount_value |-> ty.discount_value,
    min_purchase |-> m] :
   s \in CouponStates, ty \in Discounts, m \in MinPurchases}

\* (subtotal, total_items) of a cart: an empty cart has both 0.
Carts ==
  {cart \in [sub : Subtotals, count : 0..MaxItems] :
     (cart.sub = 0) <=> (cart.count = 0)}

\* Carts with the customer's flag and the cart's coupon, a fresh one that
\* expires when the clock starts.
PricedCarts ==
  {[sub |-> cart.sub, count |-> cart.count, first |-> first,
    applied |-> applied, coupon |-> coupon] :
   cart \in Carts, first \in BOOLEAN, applied \in BOOLEAN,
   coupon \in {x \in CouponObjects :
                 x.current_usage = 0 /\ x.max_usage = 1 /\ x.expiry_date = 0}}

\* The Order row and the OrderItem rows a settlement of `cart` at time t
\* leaves: the cart's fee and discounts in two-digit decimal columns, and
\* items that add up to the cart's subtotal.
SettledOrder(cart, t) ==
  [shipping_fee |-> Quantize(calculate_shipping(cart.sub, cart.count)),
   coupon_discount |->
     Quantize(Cart_coupon_discount(cart.applied, cart.coupon, cart.sub, t)),
   order_value_discount |-> Quantize(order_value_discount(cart.sub)),
   first_time_discount |->
     Quantize(first_time_discount(cart.sub, cart.first))]

SettledItems(cart) ==
  IF cart.count = 0 THEN {}
  ELSE {[order |-> 1, book |-> "b1", quantity |-> cart.count,
         subtotal |-> cart.sub]}

Calls ==
  {[pc |-> "is_valid", coupon |-> coupon, t |-> t] :
     coupon \in CouponStates, t \in 0..MaxTime}
  \cup {[pc |-> "calculate_shipping", cart |-> cart] : cart \in Carts}
  \cup {[pc |-> "order_value_discount", cart |-> cart] : cart \in Carts}
  \cup {[pc |-> op, cart |-> cart, t |-> t] :
         op \in {"cart_totals", "order_totals"}, cart \in PricedCarts,
         t \in 0..MaxTime}
  \cup {[pc |-> "coupon_discount", applied |-> applied, coupon |-> coupon,
          sub |-> sub, t |-> t] :
         applied \in BOOLEAN, coupon \in CouponObjects, sub \in Subtotals,
         t \in 0..MaxTime}

PricingInit ==
  /\ stock = [b \in Books |-> BookRow[b].stock]
  /\ price = [b \in Books |-> BookRow[b].price]
  /\ current_usage = [k \in Coupons |-> 0]
  /\ is_active = [k \in Coupons |-> CouponRow[k].is_active]
  /\ is_first_time_buyer = [c \in Customers |-> TRUE]
  /\ cart_items = [c \in Customers |-> [b \in Books |-> 0]]
  /\ cart_coupon = [c \in Customers |-> NoCoupon]
  /\ orders = <<>>
  /\ order_items = {}
  /\ payments = {}
  /\ coupon_usages = EmptyBag
  /\ now = 0
  /\ \E call \in Calls : req = [p \in Procs |-> IF p = 1 THEN call ELSE IdleReq]
  /\ resp = NoResp

\* The call returns: the answer names the method, its input and its result.
Return(result) ==
  /\ resp = NoResp
  /\ resp' = [op |-> req[1].pc, call |-> req[1], result |-> result]
  /\ UNCHANGED <<stock, price, current_usage, is_active, is_first_time_buyer,
                 cart_items, cart_coupon, orders, order_items, payments, coupon_usages,
                 now, req>>

ReturnIsValid ==
  /\ req[1].pc = "is_valid"
  /\ Return(Coupon_is_valid(req[1].coupon, req[1].t))

ReturnShipping ==
  /\ req[1].pc = "calculate_shipping"
  /\ Return(calculate_shipping(req[1].cart.sub, req[1].cart.count))

ReturnOrderValueDiscount ==
  /\ req[1].pc = "order_value_discount"
  /\ Return(order_value_discount(req[1].cart.sub))

ReturnCouponDiscount ==
  /\ req[1].pc = "coupon_discount"
  /\ Return(Cart_coupon_discount(req[1].applied, req[1].coupon, req[1].sub,
                                 req[1].t))

\* Every pricing property of the cart, read once.
ReturnCartTotals ==
  /\ req[1].pc = "cart_totals"
  /\ LET cart == req[1].cart
         t == req[1].t
     IN Return([subtotal |-> cart.sub,
                shipping_fee |-> calculate_shipping(cart.sub, cart.count),
                coupon_discount |->
                  Cart_coupon_discount(cart.applied, cart.coupon, cart.sub, t),
                order_value_discount |-> order_value_discount(cart.sub),
                first_time_discount |->
                  first_time_discount(cart.sub, cart.first),
                total_discount |-> Cart_total_discount(cart, t),
                total_amount |-> Cart_total_amount(cart, t)])

\* The properties of the Order settled from the cart.
ReturnOrderTotals ==
  /\ req[1].pc = "order_totals"
  /\ LET o == SettledOrder(req[1].cart, req[1].t)
         items == SettledItems(req[1].cart)
     IN Return([order |-> o,
                subtotal |-> OrderSubtotal(items, 1),
                total_discount |-> OrderTotalDiscount(o),
                total_amount |-> OrderTotalAmount(o, items, 1)])

PricingNext ==
  \/ ReturnIsValid
  \/ ReturnShipping
  \/ ReturnOrderValueDiscount
  \/ ReturnCouponDiscount
  \/ ReturnCartTotals
  \/ ReturnOrderTotals

SpecPricing == PricingInit /\ [][PricingNext]_vars

\* ------------------------------------------------------------- properties
PaymentsOf(id) == {pm \in payments : pm.order = id}

\* The customer whose settlement the response being sent answers.
Settler == orders'[resp'.order].customer

\* The quantity of book b held by the OrderItem rows of the orders that are
\* not cancelled.
Reserved(b) ==
  LET held == {i \in order_items :
                 i.book = b /\ orders[i.order].status # "Cancelled"}
  IN SumOver(held, [i \in held |-> i.quantity])

\* The OrderItem rows of book b this step inserts, and their quantity.
NewItems(b) == {i \in order_items' \ order_items : i.book = b}
NewQuantity(b) == SumOver(NewItems(b), [i \in NewItems(b) |-> i.quantity])

DBUnchanged ==
  UNCHANGED <<stock, price, current_usage, is_active, is_first_time_buyer,
              cart_items, cart_coupon, orders, order_items, payments, coupon_usages>>

\* C1: a settlement attempt refused for insufficient stock leaves the stock
\* of every book of the cart as it was before the attempt.
C1_RefusedSettlementKeepsStock ==
  [][(resp'.op = "settle" /\ resp'.result = "InsufficientStock") =>
       \A b \in CartBooks(cart_items, Settler) : stock'[b] = stock[b]]_vars

\* C2: while no request is in progress every Order row has exactly one
\* Payment row; an aborted settlement leaves no Order behind.
C2_EveryOrderHasOnePayment ==
  Free => \A id \in DOMAIN orders : Cardinality(PaymentsOf(id)) = 1

\* C3: with settlements interleaving, a coupon's current_usage never exceeds
\* its max_usage, and once the requests have ended it counts every redemption
\* on record: no increment is lost.
C3_RedemptionsSerialized ==
  \A k \in Coupons :
     /\ current_usage[k] <= CouponRow[k].max_usage
     /\ Free => current_usage[k] = UsagesOf(coupon_usages, k)

\* C4: with settlements and cancellations interleaving, no book is reserved
\* beyond its initial stock, and once the requests have ended each book's
\* stock is its initial stock minus the quantities its non-cancelled order
\* items hold.
C4_ReservationsSerialized ==
  \A b \in Books :
     /\ Reserved(b) <= BookRow[b].stock
     /\ Free => stock[b] = BookRow[b].stock - Reserved(b)

\* C5: 0 <= current_usage <= max_usage for every coupon, whatever sequence of
\* cart edits, coupon applications, settlements and cancellations is served.
C5_UsageWithinMax ==
  \A k \in Coupons :
     0 <= current_usage[k] /\ current_usage[k] <= CouponRow[k].max_usage

\* C6: stock is never negative.  Stock changes only in a settlement or a
\* cancellation; a settlement takes from each book exactly the quantity of
\* the order items it inserts, inserts an item only when the stock covers its
\* quantity, and is refused only when some cart item's quantity exceeds the
\* stock, which it leaves to that book; a cancellation only gives back.
C6_StockStep ==
  /\ stock' # stock => resp'.op \in {"settle", "cancel"}
  /\ resp'.op = "settle" =>
       \A b \in Books :
          /\ stock'[b] = stock[b] - NewQuantity(b)
          /\ NewQuantity(b) <= stock[b]
  /\ (resp'.op = "settle" /\ resp'.result = "InsufficientStock") =>
       \E b \in CartBooks(cart_items, Settler) :
          /\ cart_items[Settler][b] > stock[b]
          /\ NewItems(b) = {}
  /\ (resp'.op = "settle" /\ resp'.result = "ok") =>
       \A b \in Books : NewQuantity(b) = cart_items[Settler][b]
  /\ resp'.op = "cancel" => \A b \in Books : stock'[b] >= stock[b]

C6_StockNeverNegative ==
  /\ [](\A b \in Books : stock[b] >= 0)
  /\ [][C6_StockStep]_vars

\* A settlement was refused at one book after it had reserved another.
C6_Witness ==
  /\ resp.op = "settle" /\ resp.result = "InsufficientStock"
  /\ OrderItemsOf(order_items, resp.order) # {}
  /\ \E b \in Books : stock[b] = 0

\* C7: a successful cancellation that is the next request after the order's
\* successful settlement leaves every book's stock, every coupon's
\* current_usage and the CouponUsage rows as the settlement found them.
C7_CancellationReversesSettlement ==
  (resp.op = "cancel" /\ resp.result = "ok" /\ resp.pre # NoObject) =>
     /\ stock = resp.pre.stock
     /\ current_usage = resp.pre.current_usage
     /\ coupon_usages = resp.pre.coupon_usages

\* An order placed with a coupon was cancelled by the next request.
C7_Witness ==
  /\ resp.op = "cancel" /\ resp.result = "ok" /\ resp.pre # NoObject
  /\ orders[resp.order].applied_coupon # NoCoupon
  /\ OrderItemsOf(order_items, resp.order) # {}

\* C8: a cancellation succeeds only on an order that is Pending or Confirmed,
\* and marks it Cancelled; on an order in any other status it is refused and
\* changes nothing.
C8_CancelOnlyPendingOrConfirmed ==
  [][resp'.op = "cancel" =>
       LET id == resp'.order IN
       /\ resp'.result = "ok" =>
            /\ id \in DOMAIN orders
            /\ orders[id].status \in {"Pending", "Confirmed"}
            /\ orders'[id].status = "Cancelled"
       /\ (id \in DOMAIN orders
             /\ orders[id].status \notin {"Pending", "Confirmed"}) =>
            /\ resp'.result \in {"NotCancellable", "NotFound"}
            /\ DBUnchanged
       /\ resp'.result = "NotCancellable" =>
            /\ orders[id].status \in {"Shipped", "Delivered", "Cancelled"}
            /\ DBUnchanged]_vars

\* The cancellation of a Shipped order was refused.
C8_Witness ==
  /\ resp.op = "cancel" /\ resp.result = "NotCancellable"
  /\ orders[resp.order].status = "Shipped"

\* C9: an order that is Cancelled or Delivered keeps its status, and an order
\* becomes Cancelled only from Pending or Confirmed.
C9_TerminalStatuses ==
  [][\A id \in DOMAIN orders :
       /\ orders[id].status \in {"Cancelled", "Delivered"} =>
            orders'[id].status = orders[id].status
       /\ (orders'[id].status = "Cancelled" /\ orders[id].status # "Cancelled")
            => orders[id].status \in {"Pending", "Confirmed"}]_vars

\* A Cancelled order whose cash Payment is Paid has had a further
\* cancellation refused.
C9_Witness ==
  /\ resp.op = "cancel" /\ resp.result = "NotCancellable"
  /\ orders[resp.order].status = "Cancelled"
  /\ \E pm \in PaymentsOf(resp.order) : pm.method = "Cash" /\ pm.status = "Paid"

\* C10: a successful settlement leaves the order with one Payment, and the
\* order Confirmed exactly when that Payment is Paid: Card, Paid, Confirmed by
\* card and Cash, Unpaid, Pending by cash.  A Payment saved as Paid confirms
\* its order when the order is Pending and only then.
C10_Placed ==
  (resp.op = "settle" /\ resp.result = "ok") =>
     /\ Cardinality(PaymentsOf(resp.order)) = 1
     /\ \A pm \in PaymentsOf(resp.order) :
          /\ pm.method = resp.method
          /\ orders[resp.order].status = "Confirmed" <=> pm.status = "Paid"
          /\ resp.method = "Card" =>
               pm.status = "Paid" /\ orders[resp.order].status = "Confirmed"
          /\ resp.method = "Cash" =>
               pm.status = "Unpaid" /\ orders[resp.order].status = "Pending"

C10_PaymentSaved ==
  \A id \in DOMAIN orders :
     LET paid == \E pm \in payments' \ payments :
                    pm.order = id /\ pm.status = "Paid"
     IN
     /\ (orders'[id].status = "Confirmed" /\ orders[id].status # "Confirmed")
          => orders[id].status = "Pending" /\ paid
     /\ (paid /\ orders[id].status = "Pending")
          => orders'[id].status = "Confirmed"
     /\ (paid /\ orders[id].status # "Pending")
          => orders'[id].status = orders[id].status

C10_ConfirmedIffPaid ==
  /\ []C10_Placed
  /\ [][C10_PaymentSaved]_vars

\* An order was placed by card.
C10_Witness ==
  /\ resp.op = "settle" /\ resp.result = "ok" /\ resp.method = "Card"
  /\ orders[resp.order].status = "Confirmed"

\* The quantity of book b the OrderItem rows of order id hold.
OrderQuantity(id, b) ==
  LET rows == {i \in OrderItemsOf(order_items, id) : i.book = b}
  IN SumOver(rows, [i \in rows |-> i.quantity])

\* C11: a settlement invoked again by the customer right after the order was
\* placed finds the cart empty and fails; the two invocations together have
\* created one Order, raised the applied coupon's current_usage by exactly 1
\* and taken each book's stock once.
C11_RetryRedeemsOnce ==
  (resp.op = "settle" /\ resp.placed # 0) =>
     /\ resp.result = "EmptyCart"
     /\ Len(orders) = resp.placed
     /\ \A k \in Coupons :
          current_usage[k] = resp.pre.current_usage[k]
             + (IF orders[resp.placed].applied_coupon = k THEN 1 ELSE 0)
     /\ \A b \in Books :
          stock[b] = resp.pre.stock[b] - OrderQuantity(resp.placed, b)

\* The settlement of a cart with a coupon was invoked a second time.
C11_Witness ==
  /\ resp.op = "settle" /\ resp.placed # 0 /\ resp.result = "EmptyCart"
  /\ orders[resp.placed].applied_coupon # NoCoupon
  /\ OrderItemsOf(order_items, resp.placed) # {}

\* C12: a card payment whose form fails a check (a required field missing,
\* the card number, the expiry date, the CVV or the holder name) is answered
\* with a failure and changes nothing: no Order, OrderItem, Payment or
\* CouponUsage row, no stock, current_usage or is_first_time_buyer, and the
\* cart keeps its items and its coupon.
\* Stated from the step: one that answers a settlement with anything but
\* such a failure, or changes a row, is not a card payment with such a form.
C12_CardValidatedBeforeCommit ==
  [][(resp'.op = "settle"
        /\ ~(/\ resp'.result \in {"EmptyCart", "CardValidationFailed"}
             /\ DBUnchanged)) =>
       \A c \in Customers, form \in CardForms :
          (\E x \in Checks : ~form[x]) =>
             ~Serve(process_card_payment(DB, c, form))]_vars

\* A card payment on a cart with items was refused at validation.
C12_Witness ==
  /\ resp.op = "settle" /\ resp.result = "CardValidationFailed"
  /\ \E c \in Customers : CartBooks(cart_items, c) # {}

\* C13: a cash checkout or a card payment of a customer whose cart has no
\* item is answered EmptyCart and changes nothing: no Order or Payment row,
\* no stock, current_usage or is_first_time_buyer.  Stated from the step, as
\* C12 is.
C13_EmptyCartRefused ==
  [][resp'.op = "settle" =>
       /\ resp'.result = "EmptyCart" => DBUnchanged
       /\ ~(resp'.result = "EmptyCart" /\ DBUnchanged) =>
            \A c \in Customers :
               CartBooks(cart_items, c) = {} =>
                  /\ \A m \in Methods, ok \in BOOLEAN :
                        ~Serve(checkout(DB, c, m, ok))
                  /\ \A form \in CardForms :
                        ~Serve(process_card_payment(DB, c, form))]_vars

\* A settlement was asked for before anything was put in a cart.
C13_Witness ==
  /\ resp.op = "settle" /\ resp.result = "EmptyCart"
  /\ \A c \in Customers : CartBooks(cart_items, c) = {}
  /\ orders = <<>>

\* The orders of customer c that were placed: those with a Payment.
PlacedOrders(c) ==
  {id \in DOMAIN orders : orders[id].customer = c /\ PaymentsOf(id) # {}}

\* C14: a customer is a first-time buyer exactly until the customer's first
\* successful settlement: the flag goes from true to false at a successful
\* settlement of that customer and at no other step, and never goes back to
\* true, whatever is settled, refused or cancelled afterwards.
C14_Flag ==
  \A c \in Customers : is_first_time_buyer[c] <=> PlacedOrders(c) = {}

C14_FlagStep ==
  \A c \in Customers :
     /\ ~is_first_time_buyer[c] => ~is_first_time_buyer'[c]
     /\ (is_first_time_buyer[c] /\ ~is_first_time_buyer'[c]) =>
          /\ resp'.op = "settle" /\ resp'.result = "ok"
          /\ Settler = c

C14_FirstTimeOnce ==
  /\ []C14_Flag
  /\ [][C14_FlagStep]_vars

\* A customer's first and only order was cancelled and the flag stays false.
C14_Witness ==
  /\ resp.op = "cancel" /\ resp.result = "ok"
  /\ LET c == orders[resp.order].customer IN
     /\ ~is_first_time_buyer[c]
     /\ \A id \in DOMAIN orders :
          orders[id].customer = c =>
             id = resp.order /\ orders[id].status = "Cancelled"

\* C15: no (coupon, order) pair ever has more than one CouponUsage row; a
\* settlement that places an order from a cart with a coupon inserts exactly
\* one row, of that coupon, that customer and the new order, and any other
\* settlement inserts none.
C15_OnePerPair ==
  \A k \in Coupons, id \in DOMAIN orders :
     UsagesOfOrder(coupon_usages, k, id) <= 1

C15_SettlementStep ==
  resp'.op = "settle" =>
     coupon_usages' =
        IF resp'.result = "ok" /\ cart_coupon[Settler] # NoCoupon
        THEN coupon_usages (+)
               SetToBag({[coupon |-> cart_coupon[Settler],
                          customer |-> Settler, order |-> resp'.order]})
        ELSE coupon_usages

C15_OneUsagePerOrder ==
  /\ []C15_OnePerPair
  /\ [][C15_SettlementStep]_vars

\* An order was placed from a cart with a coupon.
C15_Witness ==
  /\ resp.op = "settle" /\ resp.result = "ok"
  /\ orders[resp.order].applied_coupon # NoCoupon
  /\ UsagesOfOrder(coupon_usages, orders[resp.order].applied_coupon,
                   resp.order) = 1

\* C16: while no request is in progress, every coupon's current_usage is the
\* number of its CouponUsage rows: the counter moves only by +1 with the row
\* a settlement inserts and by -1 with the row a cancellation deletes.
C16_CounterMatchesRecords ==
  Free => \A k \in Coupons : current_usage[k] = UsagesOf(coupon_usages, k)

\* The coupon the posted text names once trimmed and upper-cased, if that
\* coupon is active, not used up, not expired, and the cart of c reaches its
\* minimum purchase; NoCoupon otherwise.
Applicable(c, posted) ==
  LET fit == {k \in Coupons :
                /\ CouponRow[k].code = coupon_code(posted)
                /\ is_active[k]
                /\ current_usage[k] < CouponRow[k].max_usage
                /\ ~(now > CouponRow[k].expiry_date)
                /\ subtotal(cart_items, price, c) >= CouponRow[k].min_purchase}
  IN IF fit = {} THEN NoCoupon ELSE CHOOSE k \in fit : TRUE

\* C17: apply_coupon attaches the coupon to the cart when the code names a
\* coupon that passes validation and the cart's subtotal reaches its
\* min_purchase, and in every other case leaves every cart's coupon as it
\* was; remove_coupon leaves the cart with no coupon.
C17_ApplyAndRemoveCoupon ==
  [][/\ \A c \in Customers, posted \in Codes :
          \/ IF Applicable(c, posted) # NoCoupon
             THEN cart_coupon' =
                    [cart_coupon EXCEPT ![c] = Applicable(c, posted)]
             ELSE cart_coupon' = cart_coupon
          \/ ~Do(apply_coupon(DB, c, posted, now))
     /\ \A c \in Customers :
          \/ cart_coupon' = [cart_coupon EXCEPT ![c] = NoCoupon]
          \/ ~Do(remove_coupon(DB, c))]_vars

\* One customer's cart carries K1, which is now used up, and another
\* customer's cart is too small for it.
C17_Witness ==
  \E c1, c2 \in Customers :
     /\ cart_coupon[c1] = "k1"
     /\ current_usage["k1"] >= CouponRow["k1"].max_usage
     /\ cart_coupon[c2] = NoCoupon
     /\ CartBooks(cart_items, c2) # {}
     /\ subtotal(cart_items, price, c2) < CouponRow["k1"].min_purchase

\* C18: is_valid reports the first failing check in the order inactive,
\* usage limit reached (current_usage >= max_usage), expired (now >
\* expiry_date), whatever the later checks would say, and reports Valid only
\* if all three checks pass.
C18_FirstFailingCheckWins ==
  resp.op = "is_valid" =>
    LET coupon == resp.call.coupon
        inactive == ~coupon.is_active
        exhausted == coupon.current_usage >= coupon.max_usage
        expired == resp.call.t > coupon.expiry_date
    IN
    /\ inactive => resp.result = "This coupon is inactive"
    /\ (~inactive /\ exhausted) => resp.result = "Coupon usage limit reached"
    /\ (~inactive /\ ~exhausted /\ expired) =>
          resp.result = "This coupon has expired"
    /\ resp.result = "Valid" <=> (~inactive /\ ~exhausted /\ ~expired)

\* An active coupon that is both used up and expired was reported as used up.
C18_Witness ==
  /\ resp.op = "is_valid"
  /\ resp.call.coupon.is_active
  /\ resp.call.coupon.current_usage >= resp.call.coupon.max_usage
  /\ resp.call.t > resp.call.coupon.expiry_date
  /\ resp.result = "Coupon usage limit reached"

\* C19: the shipping fee is 0 when the subtotal is at least 5000; below that
\* it is 50 for up to 5 items and 50 + 10 * (items - 5) for more than 5; so
\* 5000 gives 0, 4999 with 5 items gives 50, 4999 with 8 items gives 80.
C19_ShippingFee ==
  resp.op = "calculate_shipping" =>
    LET sub == resp.call.cart.sub
        count == resp.call.cart.count
    IN
    /\ sub >= E4(5000) => resp.result = 0
    /\ (sub < E4(5000) /\ count <= 5) => resp.result = E4(50)
    /\ (sub < E4(5000) /\ count > 5) =>
          resp.result = E4(50) + E4(10) * (count - 5)
    /\ (sub = E4(4999) /\ count = 5) => resp.result = E4(50)
    /\ (sub = E4(4999) /\ count = 8) => resp.result = E4(80)

\* A cart of 4999 with 8 items was charged 80.
C19_Witness ==
  /\ resp.op = "calculate_shipping"
  /\ resp.call.cart = [sub |-> E4(4999), count |-> 8]
  /\ resp.result = E4(80)

\* The rate, in percent, the thresholds give a subtotal.
C20_Rate(sub) ==
  IF sub >= E4(5000) THEN 15
  ELSE IF sub >= E4(2000) THEN 10
  ELSE IF sub >= E4(1000) THEN 5
  ELSE 0

\* C20: the order-value discount is one rate times the subtotal, the rate of
\* the highest threshold met (15% from 5000, 10% from 2000, 5% from 1000,
\* else 0); it is never the sum of several tiers, and over any two subtotals
\* the rate does not decrease as the subtotal grows.
C20_OneRateByHighestThreshold ==
  resp.op = "order_value_discount" =>
    LET sub == resp.call.cart.sub IN
    /\ resp.result * 100 = sub * C20_Rate(sub)
    /\ sub >= E4(5000) => resp.result * 100 # sub * (15 + 10 + 5)
    /\ (E4(2000) <= sub /\ sub < E4(5000)) =>
          resp.result * 100 # sub * (10 + 5)
    /\ \A other \in Subtotals :
          (other <= sub /\ other > 0) =>
             (order_value_discount(other) * 100) \div other
                <= (resp.result * 100) \div sub

\* A subtotal of 5000 or more was discounted by 15%.
C20_Witness ==
  /\ resp.op = "order_value_discount"
  /\ resp.call.cart.sub >= E4(5000)
  /\ resp.result * 100 = resp.call.cart.sub * 15

\* C21: the cart's coupon discount is 0 unless a coupon is applied, the
\* coupon passes validation now, and the subtotal reaches its min_purchase;
\* when all three hold a fixed coupon gives min(discount_value, subtotal),
\* never more than the subtotal, and a percentage coupon gives
\* subtotal * discount_value / 100.
C21_CouponDiscount ==
  resp.op = "coupon_discount" =>
    LET coupon == resp.call.coupon
        sub == resp.call.sub
        granted == /\ resp.call.applied
                   /\ coupon.is_active
                   /\ coupon.current_usage < coupon.max_usage
                   /\ ~(resp.call.t > coupon.expiry_date)
                   /\ sub >= coupon.min_purchase
    IN
    /\ ~granted => resp.result = 0
    /\ (granted /\ coupon.discount_type = "fixed") =>
          /\ resp.result <= sub
          /\ resp.result <= coupon.discount_value
          /\ resp.result \in {sub, coupon.discount_value}
    /\ (granted /\ coupon.discount_type = "percentage") =>
          resp.result * 100 = (sub \div 100) * (coupon.discount_value \div 100)

\* A fixed coupon of 1000 on a subtotal of 600 gave 600.
C21_Witness ==
  /\ resp.op = "coupon_discount"
  /\ resp.call.applied
  /\ resp.call.coupon.discount_type = "fixed"
  /\ resp.call.coupon.discount_value = E4(1000)
  /\ resp.call.sub = E4(600)
  /\ resp.result = E4(600)

\* C22: the first-time discount is 15% of the subtotal when the customer's
\* flag is set and 0 otherwise; the total discount is the sum of the coupon,
\* order-value and first-time discounts; the total is subtotal minus total
\* discount plus shipping fee, below zero if the discounts exceed it; for the
\* cart and for the order alike.  A first-time buyer's subtotal of 6000 has
\* an order-value discount of 900 and a first-time discount of 900, both in
\* the total discount.
C22_DiscountsStack ==
  /\ resp.op = "cart_totals" =>
       LET cart == resp.call.cart
           got == resp.result
       IN
       /\ got.first_time_discount * 100 =
            (IF cart.first THEN cart.sub * 15 ELSE 0)
       /\ got.total_discount =
            got.coupon_discount + got.order_value_discount
            + got.first_time_discount
       /\ got.total_amount =
            cart.sub - got.total_discount + got.shipping_fee
       /\ (cart.sub = E4(6000) /\ cart.first) =>
            /\ got.order_value_discount = E4(900)
            /\ got.first_time_discount = E4(900)
            /\ got.total_discount >= E4(1800)
  /\ resp.op = "order_totals" =>
       LET o == resp.result.order
           got == resp.result
       IN
       /\ got.total_discount =
            o.coupon_discount + o.order_value_discount + o.first_time_discount
       /\ got.total_amount = got.subtotal - got.total_discount + o.shipping_fee
       /\ (resp.call.cart.sub = E4(6000) /\ resp.call.cart.first) =>
            /\ o.order_value_discount = E4(900)
            /\ o.first_time_discount = E4(900)
            /\ got.total_discount >= E4(1800)

\* A first-time buyer's cart got all three discounts, more than its
\* subtotal together, and its total is below zero.
C22_Witness ==
  /\ resp.op = "cart_totals"
  /\ resp.call.cart.first
  /\ resp.result.coupon_discount > 0
  /\ resp.result.order_value_discount > 0
  /\ resp.result.first_time_discount > 0
  /\ resp.result.total_amount < 0

\* The totals of customer c's cart, read from database d when the clock
\* shows t: the fee and the discounts as a settlement would read them for
\* its order, with the subtotal and the total.
CartTotals(d, c, t) ==
  LET k == d.cart_coupon[c]
      usage == IF k = NoCoupon THEN 0 ELSE d.current_usage[k]
      o == NewOrder(d, c, k, usage, t)
      sub == subtotal(d.cart_items, d.price, c)
  IN [subtotal |-> sub, shipping_fee |-> o.shipping_fee,
      coupon_discount |-> o.coupon_discount,
      order_value_discount |-> o.order_value_discount,
      first_time_discount |-> o.first_time_discount,
      total_amount |-> sub - OrderTotalDiscount(o) + o.shipping_fee]

\* What the claim lists is as it was: cart items, book prices, applied
\* coupons, coupon fields, customer flags.
C23_NoMutation ==
  /\ cart_items' = cart_items
  /\ price' = price
  /\ cart_coupon' = cart_coupon
  /\ current_usage' = current_usage
  /\ is_active' = is_active
  /\ is_first_time_buyer' = is_first_time_buyer

\* C23 as stated: two reads of a cart's totals with no mutation of cart
\* items, book prices, applied coupon, coupon fields or customer flag in
\* between give the same results.
C23_SameTotalsWithoutMutation ==
  [][C23_NoMutation =>
       \A c \in Customers : CartTotals(DB', c, now') = CartTotals(DB, c, now)]_vars

\* C23: two reads of a cart's totals give the same results if between them
\* there is no mutation of cart items, book prices, applied coupon, coupon
\* fields or customer flag, and the clock does not pass the expiry date of
\* the cart's applied coupon.
C23_SameTotalsWithoutMutationOrExpiry ==
  [][C23_NoMutation =>
       \A c \in Customers :
          (cart_coupon[c] # NoCoupon =>
             ((now' > CouponRow[cart_coupon[c]].expiry_date)
                <=> (now > CouponRow[cart_coupon[c]].expiry_date)))
          => CartTotals(DB', c, now') = CartTotals(DB, c, now)]_vars

\* A cart holds items and K1 while another customer's order was placed and
\* its payment then marked by the back office: the rows around the cart
\* changed, the cart's own did not.
C23_Witness ==
  \E c \in Customers :
     /\ CartBooks(cart_items, c) # {}
     /\ cart_coupon[c] = "k1"
     /\ \E id \in DOMAIN orders : orders[id].customer # c
     /\ \E pm \in payments : pm.status = "Refunded"
     /\ \E b \in CartBooks(cart_items, c) : stock[b] = 0

\* The shipping fee and the three discounts of an Order row.
Frozen(o) ==
  <<o.shipping_fee, o.coupon_discount, o.order_value_discount,
    o.first_time_discount>>

\* C24: the shipping_fee, coupon_discount, order_value_discount and
\* first_time_discount of an order stay what the settlement stored: no
\* step of a customer, of the back office or of the clock changes them.
C24_FrozenAtSettlement ==
  [][\A id \in DOMAIN orders : Frozen(orders'[id]) = Frozen(orders[id])]_vars

\* An order that was given the coupon and the first-time discount is
\* cancelled and its payment refunded; meanwhile the coupon was switched
\* off and expired, the customer's flag dropped and the book's price changed.
C24_Witness ==
  \E id \in DOMAIN orders :
     /\ orders[id].coupon_discount > 0
     /\ orders[id].first_time_discount > 0
     /\ orders[id].status = "Cancelled"
     /\ \E pm \in payments : pm.order = id /\ pm.status = "Refunded"
     /\ ~is_active[orders[id].applied_coupon]
     /\ now > CouponRow[orders[id].applied_coupon].expiry_date
     /\ ~is_first_time_buyer[orders[id].customer]
     /\ \E i \in order_items : i.order = id /\ price[i.book] # i.unit_price
     /\ resp = NoResp

\* The (order, book) pairs that have an OrderItem row.
ItemKeys(rows) == {<<i.order, i.book>> : i \in rows}

\* C25: an OrderItem row is a snapshot: it is inserted with the book's price
\* of that moment as unit_price and unit_price * quantity as subtotal, and it
\* stays as it is whatever happens to the book's price and whenever the row is
\* saved again; a step that saves rows again and inserts none leaves the stock.
C25_OrderItemSnapshot ==
  [][/\ \A i \in order_items : i \in order_items'
     /\ \A j \in order_items' \ order_items :
          /\ j.unit_price = price[j.book]
          /\ j.subtotal = j.unit_price * j.quantity
     /\ (ItemKeys(order_items') = ItemKeys(order_items)
           /\ order_items' # order_items) => stock' = stock]_vars

\* C29: at most one Order row of a customer has first_time_discount > 0.
C29_FirstTimeDiscountOnce ==
  \A c \in Customers :
     Cardinality({id \in DOMAIN orders :
                    /\ orders[id].customer = c
                    /\ orders[id].first_time_discount > 0}) <= 1

\* C30: when a settlement served alone places an order, the Payment's amount
\* is the order's total_amount (the sum of its OrderItem subtotals minus its
\* three stored discounts plus its stored shipping_fee), and that is the
\* cart's total_amount as it was read just before the settlement.
C30_PaymentIsOrderIsCartTotal ==
  [][(resp'.op = "settle" /\ resp'.result = "ok") =>
       \A pm \in payments' :
          pm.order = resp'.order =>
            /\ pm.amount =
                 OrderTotalAmount(orders'[resp'.order], order_items',
                                  resp'.order)
            /\ pm.amount = CartTotals(DB, Settler, now).total_amount]_vars

\* Request p is a cancellation between its first step and its response.
Cancelling(p) ==
  /\ req[p].pc \notin {"idle", "done"}
  /\ req[p].op = "cancel"

\* The items of the order whose stock cancellation p has given back.
Restored(p) == OrderItemsOf(order_items, req[p].order) \ req[p].todo

\* C26: no request finds the database in a state in which a cancellation
\* has restored the stock of some but not all of the order's items, or has
\* restored stock or reversed the coupon's usage while the order is still
\* Pending or Confirmed.
C26_CancellationAtomic ==
  \A p, q \in Procs :
     (p # q /\ Cancelling(p) /\ req[q].pc \notin {"idle", "done"}) =>
        /\ ~(Restored(p) # {} /\ req[p].todo # {})
        /\ ~(/\ orders[req[p].order].status \in cancellable_statuses
             /\ \/ Restored(p) # {}
                \/ /\ req[p].pc = "mark"
                   /\ req[p].held.applied_coupon # NoCoupon)

\* C27: a successful settlement, by cash or by card, leaves the customer's
\* cart with no item and no applied coupon, and the order with exactly one
\* OrderItem for each item the cart held, of the same book and quantity.
C27_CartBecomesOrder ==
  [][(resp'.op = "settle" /\ resp'.result = "ok") =>
       /\ \A b \in Books : cart_items'[Settler][b] = 0
       /\ cart_coupon'[Settler] = NoCoupon
       /\ \A b \in Books :
            Cardinality({i \in OrderItemsOf(order_items', resp'.order) :
                           i.book = b})
              = IF cart_items[Settler][b] > 0 THEN 1 ELSE 0
       /\ \A i \in OrderItemsOf(order_items', resp'.order) :
            i.quantity = cart_items[Settler][i.book]]_vars

\* A cart of two books with a coupon was settled by card.
C27_Witness ==
  /\ resp.op = "settle" /\ resp.result = "ok" /\ resp.method = "Card"
  /\ orders[resp.order].applied_coupon # NoCoupon
  /\ Cardinality(OrderItemsOf(order_items, resp.order)) = 2
  /\ \A b \in Books : cart_items[orders[resp.order].customer][b] = 0

\* C28: a settlement that aborts for insufficient stock leaves the cart's
\* items and applied coupon, every coupon's current_usage, the CouponUsage
\* records and the customer's is_first_time_buyer flag as they were, and
\* creates no Payment.
C28_AbortLeavesCartAndCoupon ==
  [][(resp'.op = "settle" /\ resp'.result = "InsufficientStock") =>
       /\ cart_items' = cart_items
       /\ cart_coupon' = cart_coupon
       /\ current_usage' = current_usage
       /\ coupon_usages' = coupon_usages
       /\ is_first_time_buyer' = is_first_time_buyer
       /\ payments' = payments]_vars

\* The settlement of a first-time buyer's cart with a coupon was refused for
\* insufficient stock.
C28_Witness ==
  /\ resp.op = "settle" /\ resp.result = "InsufficientStock"
  /\ cart_coupon[orders[resp.order].customer] # NoCoupon
  /\ is_first_time_buyer[orders[resp.order].customer]
  /\ PaymentsOf(resp.order) = {}

\* C31: a cancel request that names an order that does not exist, or an order
\* of another customer, is answered NotFound and changes no order, stock,
\* coupon usage or any other row.
C31_CancelOnlyOwnOrders ==
  [][resp'.op = "cancel" =>
       \A c \in Customers, id \in 1..MaxOrders :
          (id \notin DOMAIN orders \/ orders[id].customer # c) =>
             \/ resp'.result = "NotFound" /\ DBUnchanged
             \/ ~Serve(cancel_order(DB, c, id, "changed my mind"))]_vars

\* A customer asked to cancel a cancellable order of another customer.
C31_Witness ==
  /\ resp.op = "cancel" /\ resp.result = "NotFound"
  /\ resp.order \in DOMAIN orders
  /\ orders[resp.order].status \in cancellable_statuses
  /\ OrderItemsOf(order_items, resp.order) # {}

\* C32: the reservation of an order is reversed at most once, whatever the
\* interleaving of the cancel requests for it.  While one order only has been
\* placed, a book's stock is its initial stock less the order's quantity plus
\* one quantity for each time it was given back, and a coupon's current_usage
\* is zero plus the order's redemption less one for each reversal: given back
\* at most once, the stock never passes its initial value and the usage
\* never falls below zero.
C32_ReversedAtMostOnce ==
  Len(orders) = 1 =>
     /\ \A b \in Books : stock[b] <= BookRow[b].stock
     /\ \A k \in Coupons : current_usage[k] >= 0

\* C33: a settlement raises a coupon's current_usage and records a
\* CouponUsage only when the coupon applied to the cart is active, not
\* exhausted and not expired and the cart's subtotal meets its min_purchase
\* as the settlement begins; the order it creates then carries that coupon's
\* discount on that subtotal.
C33_RedeemOnlyValidCoupon ==
  [][\A k \in Coupons :
       (current_usage'[k] > current_usage[k]
          \/ UsagesOf(coupon_usages', k) > UsagesOf(coupon_usages, k)) =>
          /\ resp'.op = "settle"
          /\ cart_coupon[Settler] = k
          /\ is_active[k]
          /\ current_usage[k] < CouponRow[k].max_usage
          /\ ~(now > CouponRow[k].expiry_date)
          /\ subtotal(cart_items, price, Settler) >= CouponRow[k].min_purchase
          /\ orders'[resp'.order].coupon_discount =
               Quantize(calculate_discount(k, subtotal(cart_items, price,
                                                      Settler)))]_vars

\* C34: a cancellation leaves every Payment as it was, so that a card-paid
\* order that is cancelled keeps its Paid payment, and leaves every cart and
\* every customer's is_first_time_buyer flag as they were.
C34_CancellationLeavesPaymentAndCart ==
  [][resp'.op = "cancel" =>
       /\ payments' = payments
       /\ cart_items' = cart_items
       /\ cart_coupon' = cart_coupon
       /\ is_first_time_buyer' = is_first_time_buyer]_vars

\* A card-paid order was cancelled while its customer's cart held an item.
C34_Witness ==
  /\ resp.op = "cancel" /\ resp.result = "ok"
  /\ orders[resp.order].status = "Cancelled"
  /\ \E pm \in PaymentsOf(resp.order) : pm.method = "Card" /\ pm.status = "Paid"
  /\ \E b \in Books : cart_items[orders[resp.order].customer][b] > 0

\* C35: under add_to_cart, update_cart_item and remove_from_cart a cart holds
\* each book at most once, with a quantity of at least 1.  A decrease at
\* quantity 1 leaves the item as it is, a decrease above 1 takes 1; an add or
\* an increase on an item the cart holds adds exactly 1 while the quantity is
\* below the book's stock and otherwise leaves it as it is; an add of a book
\* the cart does not hold creates the item with quantity 1.
C35_CartStep ==
  \A c \in Customers, b \in Books :
     LET q == cart_items[c][b]
         raised == IF q < stock[b] THEN q + 1 ELSE q
     IN
     /\ cart_items'[c][b] >= 0
     /\ q > 0 =>
          /\ cart_items'[c][b] = raised \/ ~Do(add_to_cart(DB, c, b))
          /\ \/ cart_items'[c][b] = raised
             \/ ~Do(update_cart_item(DB, c, b, "increase"))
          /\ \/ cart_items'[c][b] = (IF q > 1 THEN q - 1 ELSE q)
             \/ ~Do(update_cart_item(DB, c, b, "decrease"))
     /\ q = 0 => (cart_items'[c][b] = 1 \/ ~Do(add_to_cart(DB, c, b)))
     /\ \A x \in Books \ {b} :
          \/ cart_items'[c][x] = cart_items[c][x]
          \/ /\ ~Do(add_to_cart(DB, c, b))
             /\ ~Do(update_cart_item(DB, c, b, "increase"))
             /\ ~Do(update_cart_item(DB, c, b, "decrease"))
             /\ ~Do(remove_from_cart(DB, c, b))

C35_CartQuantities ==
  /\ [](\A c \in Customers, b \in Books : cart_items[c][b] >= 0)
  /\ [][C35_CartStep]_vars

\* A cart holds a book at its stock after an increase, and another at
\* quantity 1 above the book's stock.
C35_Witness ==
  \E c \in Customers :
     /\ cart_items[c]["b1"] >= 2 /\ cart_items[c]["b1"] = stock["b1"]
     /\ cart_items[c]["b2"] = 1 /\ stock["b2"] = 0

====
